---- MODULE Spec2Model ----
(***************************************************************************)
(* The Python backend of the type-definition generator                     *)
(* (core/src/language/python.rs): generate_types and the emission          *)
(* callbacks it drives, over a bounded family of ParsedData snapshots and  *)
(* output sinks.                                                           *)
(*                                                                         *)
(* Text is modelled as text: every line handed to the sink is the string   *)
(* the format string produces, so wrapping, escaping and naming are        *)
(* checked on the emitted characters.                                      *)
(***************************************************************************)
EXTENDS Naturals, Integers, Sequences, FiniteSets, TLC

(***************************************************************************)
(* Bounds of the explored inputs.                                          *)
(***************************************************************************)
\* fields per struct in the formatting snapshots
MaxFields == 2
\* items (structs + aliases + enums) in the reference-graph snapshots
MaxItems == 3
\* items in the reference-graph snapshots that hold a reference cycle
MaxCycleItems == 2
\* a failing sink accepts 0..MaxWrites writes and rejects the next one
MaxWrites == 3

\* sinkCap value of a sink that never rejects a write
NoLimit == 0 - 1

(***************************************************************************)
(* Strings.                                                                *)
(***************************************************************************)
Digits == "0123456789"

Digit(i) == SubSeq(Digits, i + 1, i + 1)

RECURSIVE Repeat(_, _)
\* "\t".repeat(indent)
Repeat(s, n) == IF n = 0 THEN "" ELSE s \o Repeat(s, n - 1)

\* s starts with prefix p
StartsWith(s, p) == Len(s) >= Len(p) /\ SubSeq(s, 1, Len(p)) = p

RECURSIVE CountSub(_, _)
\* number of (left-to-right, non-overlapping) occurrences of p in s
CountSub(s, p) ==
    IF Len(s) < Len(p) THEN 0
    ELSE IF SubSeq(s, 1, Len(p)) = p
         THEN 1 + CountSub(SubSeq(s, Len(p) + 1, Len(s)), p)
         ELSE CountSub(SubSeq(s, 2, Len(s)), p)

RECURSIVE EscapeDebug(_)
\* the body of format!("{:?}", s) for a name of printable characters: the
\* quote and the backslash are escaped
EscapeDebug(s) ==
    IF Len(s) = 0 THEN ""
    ELSE LET c == SubSeq(s, 1, 1)
             r == EscapeDebug(SubSeq(s, 2, Len(s)))
         IN  IF c = "\"" THEN "\\\"" \o r
             ELSE IF c = "\\" THEN "\\\\" \o r
             ELSE c \o r

\* format!("{:?}", s): the escaped body between two quotes
FormatDebug(s) == "\"" \o EscapeDebug(s) \o "\""

(***************************************************************************)
(* The type model (RustType, SpecialRustType, Id).                         *)
(***************************************************************************)
Simple(id) == [k |-> "Simple", id |-> id, args |-> <<>>]

Special(sp, args) == [k |-> "Special", id |-> sp, args |-> args]

Id(original, renamed) == [original |-> original, renamed |-> renamed]

\* RustType::id(): the name of the type, without its parameters
TypeId(ty) == ty.id

\* RustType::is_optional(): the type is Option<_> at its top level
IsOptional(ty) == ty.k = "Special" /\ ty.id = "Option"

IntKinds == {"I8", "U8", "U16", "I32", "I16", "ISize", "USize", "U32",
             "I54", "I64", "U53", "U64"}

(***************************************************************************)
(* State.                                                                  *)
(***************************************************************************)
VARIABLES
    data,                     \* the ParsedData snapshot: structs, aliases, enums
    type_mappings,            \* Python.type_mappings
    sinkCap,                  \* writes the sink still accepts (NoLimit: all)
    out,                      \* what the sink holds: one string per write
    pc,                       \* position in generate_types
    types_mapping_to_struct,  \* the local set of lines 24-32
    sorted,                   \* the local vector of line 50
    next_item,                \* position of the loop of line 52 in sorted
    result,                   \* "running", "ok", an error kind, or "panic"
    error_ref,                \* what a returned error names
    begin_calls,              \* calls of begin_file so far
    end_calls,                \* calls of end_file so far
    emitted,                  \* the items the loop of line 52 has dispatched
    failed_at                 \* Len(out) when the failing callback was entered

vars == <<data, type_mappings, sinkCap, out, pc, types_mapping_to_struct,
          sorted, next_item, result, error_ref, begin_calls, end_calls,
          emitted, failed_at>>

(***************************************************************************)
(* The type formatter.                                                     *)
(***************************************************************************)
Ok(text) == [ok |-> TRUE, text |-> text]

Err == [ok |-> FALSE, text |-> ""]

\* every identity of the snapshot
AllIds ==
    {data.structs[i].id : i \in DOMAIN data.structs}
        \cup {data.aliases[i].id : i \in DOMAIN data.aliases}
        \cup {data.enums[i].id : i \in DOMAIN data.enums}

\* elements of a sequence
Range(s) == {s[i] : i \in DOMAIN s}

\* the rendering of a named reference: the type_mappings entry if one is
\* registered, a bound generic parameter as itself, the referenced
\* identity's renamed form, and an error for a name bound to nothing
FormatSimpleType(id, generic_types) ==
    IF id \in DOMAIN type_mappings THEN Ok(type_mappings[id])
    ELSE IF id \in Range(generic_types) THEN Ok(id)
    ELSE IF \E d \in AllIds : d.original = id
         THEN Ok((CHOOSE d \in AllIds : d.original = id).renamed)
         ELSE Err

RECURSIVE FormatType(_, _)
RECURSIVE FormatSpecialType(_, _)

\* Language::format_type: dispatch on the shape of the type
FormatType(ty, generic_types) ==
    IF ty.k = "Special" THEN FormatSpecialType(ty, generic_types)
    ELSE FormatSimpleType(ty.id, generic_types)

\* Python::format_special_type
FormatSpecialType(special_ty, generic_types) ==
    LET sp == special_ty.id
        a  == special_ty.args
    IN  CASE sp \in {"Vec", "Array", "Slice"} ->
               LET r == FormatType(a[1], generic_types)
               IN  IF r.ok THEN Ok("list[" \o r.text \o "]") ELSE Err
          [] sp = "Option" ->
               LET r == FormatType(a[1], generic_types)
               IN  IF r.ok THEN Ok(r.text \o "|None") ELSE Err
          [] sp = "HashMap" ->
               LET r1 == FormatType(a[1], generic_types)
               IN  IF ~r1.ok THEN Err
                   ELSE LET r2 == FormatType(a[2], generic_types)
                        IN  IF r2.ok
                            THEN Ok("dict[" \o r1.text \o "]" \o r2.text)
                            ELSE Err
          [] sp = "Unit" -> Ok("()")
          [] sp = "String" -> Ok("str")
          [] sp = "Char" -> Ok("str")
          [] sp \in IntKinds -> Ok("int")
          [] sp = "Bool" -> Ok("bool")
          [] sp \in {"F32", "F64"} -> Ok("float")

(***************************************************************************)
(* The sink and the emission callbacks.  A callback is the sequence of     *)
(* steps it takes: a write to the sink, or the failure of a format_type    *)
(* call; `?` returns at the first step that fails.  The sink takes or      *)
(* rejects the text of one writeln! as a whole.                            *)
(***************************************************************************)
Fail(kind, ref) == [op |-> "fail", text |-> kind, ref |-> ref]

\* writeln!(w, ...): the text and a newline, in one write
Writeln(text) == [op |-> "write", text |-> text \o "\n", ref |-> ""]

\* write_comment, as the write it makes
WriteComment(indent, comment) ==
    Writeln(Repeat("\t", indent) \o "# " \o comment)

\* write_comments: one write per comment, in order
WriteComments(indent, comments) ==
    [i \in DOMAIN comments |-> WriteComment(indent, comments[i])]

RECURSIVE RunSteps(_, _, _)
\* the steps against sink contents o and capacity cap, up to the first
\* failure
RunSteps(steps, o, cap) ==
    IF steps = <<>> THEN [out |-> o, cap |-> cap, res |-> "ok", ref |-> ""]
    ELSE LET s == Head(steps)
         IN  IF s.op = "fail"
             THEN [out |-> o, cap |-> cap, res |-> s.text, ref |-> s.ref]
             ELSE IF cap = 0
             THEN [out |-> o, cap |-> cap, res |-> "SinkWriteError", ref |-> ""]
             ELSE RunSteps(Tail(steps), Append(o, s.text),
                           IF cap = NoLimit THEN cap ELSE cap - 1)

\* the type text of a field: its override when one is registered for
\* Python, the formatted type otherwise (lines 158-163)
FieldTypeName(field, generic_types) ==
    IF field.type_override # <<>> THEN Ok(field.type_override[1])
    ELSE FormatType(field.ty, generic_types)

\* the name inside the annotation: the Debug form without its two quotes
\* (lines 165-166)
RenamedId(field) ==
    LET formatted_renamed_id == FormatDebug(field.id.renamed)
    IN  SubSeq(formatted_renamed_id, 2, Len(formatted_renamed_id) - 1)

\* the annotation written for every field, renamed or not
NeedsAnnotation_Always(field) == TRUE

\* whether write_field writes the annotation (line 168)
NeedsAnnotation(field) == field.id.renamed # field.id.original

\* the suffix write_field appends to the type text (line 176)
OptionalSuffix(field) == IF IsOptional(field.ty) THEN "|None" ELSE ""

\* the field line (lines 171-177)
FieldLine(field, type_name) ==
    "\t" \o field.id.original \o ": " \o type_name \o OptionalSuffix(field)

\* the annotation line (line 169)
AnnotationLine(field) == "\t@JsonProperty(\"" \o RenamedId(field) \o "\")"

\* Python::write_field
WriteFieldSteps(field, generic_types) ==
    LET type_name == FieldTypeName(field, generic_types)
    IN  WriteComments(1, field.comments)
          \o (IF ~type_name.ok
              THEN << Fail("TypeFormatError", field.ty.id) >>
              ELSE (IF NeedsAnnotation(field)
                    THEN << Writeln(AnnotationLine(field)) >>
                    ELSE << >>)
                   \o << Writeln(FieldLine(field, type_name.text)) >>)

RECURSIVE FieldsSteps(_, _)
\* rs.fields.iter().try_for_each(write_field): the fields in declared order
FieldsSteps(fields, generic_types) ==
    IF fields = << >> THEN << >>
    ELSE WriteFieldSteps(Head(fields), generic_types)
           \o FieldsSteps(Tail(fields), generic_types)

\* the name write_struct declares (line 128)
StructDeclName(rs) == rs.id.renamed

\* the class header line (lines 125-129)
ClassLine(rs) == "class " \o StructDeclName(rs) \o ":"

\* Python::write_struct
WriteStructSteps(rs) ==
    WriteComments(0, rs.comments)
      \o << Writeln(ClassLine(rs)) >>
      \o FieldsSteps(rs.fields, rs.generic_types)
      \o << Writeln("") >>

\* the name write_type_alias declares (line 115)
AliasDeclName(ty) == ty.id.original

\* the alias line (lines 112-118)
AliasLine(ty, type_text) == AliasDeclName(ty) \o " = " \o type_text \o "\n"

\* Python::write_type_alias
WriteTypeAliasSteps(ty) ==
    LET t == FormatType(ty.ty, << >>)
    IN  WriteComments(0, ty.comments)
          \o (IF t.ok THEN << Writeln(AliasLine(ty, t.text)) >>
              ELSE << Fail("TypeFormatError", ty.ty.id) >>)

\* Python::begin_file
BeginFileSteps == << Writeln("") >>

\* Language::end_file, which Python does not override: no framing
EndFileSteps == << >>

(***************************************************************************)
(* The worklist and the dependency sorter.                                 *)
(***************************************************************************)
Item(kind, def) == [kind |-> kind, def |-> def]

ItemName(it) == it.def.id.original

\* the worklist without the loop of lines 38-40: the aliases are left out
Worklist_NoAliases(d) ==
    [i \in DOMAIN d.structs |-> Item("Struct", d.structs[i])]
      \o [i \in DOMAIN d.enums |-> Item("Enum", d.enums[i])]

\* lines 36-48: aliases, then structs, then enums
Worklist(d) ==
    [i \in DOMAIN d.aliases |-> Item("Alias", d.aliases[i])]
      \o [i \in DOMAIN d.structs |-> Item("Struct", d.structs[i])]
      \o [i \in DOMAIN d.enums |-> Item("Enum", d.enums[i])]

RECURSIVE RefNames(_)
\* the names a type refers to, containers and optionals unwrapped
RefNames(ty) ==
    IF ty.k = "Simple" THEN {ty.id}
    ELSE UNION {RefNames(ty.args[i]) : i \in DOMAIN ty.args}

\* the types an item mentions: field types, alias target, variant payloads
ItemTypes(it) ==
    CASE it.kind = "Struct" -> {it.def.fields[i].ty : i \in DOMAIN it.def.fields}
      [] it.kind = "Alias" -> {it.def.ty}
      [] it.kind = "Enum" -> Range(it.def.variants)

\* the other items of the worklist that an item refers to by name
Deps(it, items) ==
    (UNION {RefNames(t) : t \in ItemTypes(it)})
        \cap ({ItemName(items[i]) : i \in DOMAIN items} \ {ItemName(it)})

RECURSIVE Kahn(_, _)
\* dependency order, ties broken by worklist order: repeatedly the first
\* item not yet placed whose dependencies are all placed
Kahn(items, placed) ==
    LET names == {ItemName(placed[i]) : i \in DOMAIN placed}
        ready == {i \in DOMAIN items :
                     /\ ItemName(items[i]) \notin names
                     /\ Deps(items[i], items) \subseteq names}
    IN  IF ready = {} THEN placed
        ELSE Kahn(items, Append(placed,
                     items[CHOOSE i \in ready : \A j \in ready : i <= j]))

\* the worklist has no reference cycle between distinct items
Acyclic(items) == Len(Kahn(items, << >>)) = Len(items)

\* every order of the worklist
Orders(items) ==
    {[i \in DOMAIN items |-> items[p[i]]] : p \in Permutations(DOMAIN items)}

\* topsort: what the call of line 50 can come back with.  It returns a
\* vector, so a worklist it cannot linearize either aborts the process or
\* comes back in some order.
Topsort(items) ==
    IF Acyclic(items) THEN {[abort |-> FALSE, order |-> Kahn(items, << >>)]}
    ELSE {[abort |-> TRUE, order |-> << >>]}
           \cup {[abort |-> FALSE, order |-> o] : o \in Orders(items)}

(***************************************************************************)
(* The snapshots explored.                                                 *)
(***************************************************************************)
Field(id, ty, type_override, comments) ==
    [id |-> id, ty |-> ty, type_override |-> type_override,
     comments |-> comments]

Struct(id, generic_types, fields, comments) ==
    [id |-> id, generic_types |-> generic_types, fields |-> fields,
     comments |-> comments]

Alias(id, ty, comments) == [id |-> id, ty |-> ty, comments |-> comments]

Enum(id, variants) == [id |-> id, variants |-> variants]

Snapshot(structs, aliases, enums) ==
    [structs |-> structs, aliases |-> aliases, enums |-> enums]

NoMappings == << >>

F64 == Special("F64", << >>)

\* The shapes a field of the formatting snapshots takes: its type, its
\* override, the suffix its renamed name adds, its comments.
FieldShapes ==
    { [ty |-> F64, ov |-> << >>, rn |-> "", cm |-> << >>],
      [ty |-> Special("Option", << F64 >>), ov |-> << >>, rn |-> "Id",
       cm |-> << "optional" >>],
      [ty |-> Special("Option", << Simple("T") >>), ov |-> << "int64" >>,
       rn |-> "", cm |-> << >>],
      [ty |-> Simple("Timestamp"), ov |-> << "int64" >>, rn |-> "\"q\\",
       cm |-> << >>],
      [ty |-> Simple("U"), ov |-> << >>, rn |-> "", cm |-> << "unbound" >>],
      [ty |-> Special("HashMap",
                  << Special("String", << >>),
                     Special("Vec", << Special("Option", << Simple("Point") >>) >>) >>),
       ov |-> << >>, rn |-> "Map", cm |-> << >>] }

FieldOfShape(sh, i) ==
    LET original == "f" \o Digit(i)
    IN  Field(Id(original, original \o sh.rn), sh.ty, sh.ov, sh.cm)

\* field sequences of at most MaxFields fields, names unique by position
FieldSeqs ==
    UNION {[1..n -> FieldShapes] : n \in 0..MaxFields}

\* struct Point<T>, plain or renamed and documented
PointStructs(shapes) ==
    LET fields == [i \in DOMAIN shapes |-> FieldOfShape(shapes[i], i)]
    IN  { Struct(Id("Point", "Point"), << "T" >>, fields, << >>),
          Struct(Id("Point", "PointDto"), << "T" >>, fields,
                 << "A point" >>) }

\* none, or alias Coordinates = Vec<Point>, plain or renamed and documented
CoordinatesAliases ==
    LET ty == Special("Vec", << Simple("Point") >>)
    IN  { << >>,
          << Alias(Id("Coordinates", "Coordinates"), ty, << >>) >>,
          << Alias(Id("Coordinates", "Coords"), ty, << "A path" >>) >> }

\* none, or an enum with a variant holding a Point
ColorEnums == { << >>, << Enum(Id("Color", "Color"), << Simple("Point") >>) >> }

PointMappings == { NoMappings, [n \in {"Point"} |-> "Pt"] }

SinkCaps == (0..MaxWrites) \cup {NoLimit}

\* formatting snapshots: one struct with fields of every shape, over sinks
\* that fail at any of their first writes
FormatInputs ==
    { [data |-> Snapshot(<< st >>, al, en), type_mappings |-> tm, sinkCap |-> c] :
        st \in UNION {PointStructs(sh) : sh \in FieldSeqs},
        al \in CoordinatesAliases, en \in ColorEnums,
        tm \in PointMappings, c \in SinkCaps }

TypeName(i) == "T" \o Digit(i)

\* In a reference-graph snapshot of n items, item i is named TypeName(i);
\* the aliases come first, then the structs, then the enums, each kind in
\* declaration order.  A struct refers directly to a set of other items; an
\* alias is of a scalar, or of another item (directly or as a Vec of it).
GraphItemSpecs(n, i, kind) ==
    CASE kind = "Struct" ->
           { [kind |-> "Struct", refs |-> r, vec |-> FALSE] :
               r \in SUBSET ((1..n) \ {i}) }
      [] kind = "Alias" ->
           { [kind |-> "Alias", refs |-> {j}, vec |-> v] :
               j \in (1..n) \ {i}, v \in BOOLEAN }
             \cup { [kind |-> "Alias", refs |-> {}, vec |-> FALSE] }
      [] kind = "Enum" -> { [kind |-> "Enum", refs |-> {}, vec |-> FALSE] }

RECURSIVE SetToSeq(_)
\* the elements of a set of numbers, increasing
SetToSeq(S) ==
    IF S = {} THEN << >>
    ELSE LET m == CHOOSE x \in S : \A y \in S : x <= y
         IN  << m >> \o SetToSeq(S \ {m})

GraphDef(sp, i) ==
    LET id == Id(TypeName(i), TypeName(i))
        refs == SetToSeq(sp.refs)
    IN  CASE sp.kind = "Struct" ->
               Struct(id, << >>,
                      [k \in DOMAIN refs |->
                          Field(Id("f" \o Digit(refs[k]), "f" \o Digit(refs[k])),
                                Simple(TypeName(refs[k])), << >>, << >>)],
                      << >>)
          [] sp.kind = "Alias" ->
               Alias(id,
                     IF sp.refs = {} THEN F64
                     ELSE LET t == Simple(TypeName(refs[1]))
                          IN  IF sp.vec THEN Special("Vec", << t >>) ELSE t,
                     << >>)
          [] sp.kind = "Enum" -> Enum(id, << >>)

\* the items of the given kind, in index (declaration) order
GraphDefs(specs, kind) ==
    LET idx == SetToSeq({i \in DOMAIN specs : specs[i].kind = kind})
    IN  [k \in DOMAIN idx |-> GraphDef(specs[idx[k]], idx[k])]

GraphSnapshot(specs) ==
    Snapshot(GraphDefs(specs, "Struct"), GraphDefs(specs, "Alias"),
             GraphDefs(specs, "Enum"))

RECURSIVE AliasChainEnds(_, _, _)
\* following alias targets from item i leaves the aliases within `fuel` steps
AliasChainEnds(specs, i, fuel) ==
    \/ specs[i].kind # "Alias"
    \/ specs[i].refs = {}
    \/ /\ fuel > 0
       /\ \A j \in specs[i].refs : AliasChainEnds(specs, j, fuel - 1)

RECURSIVE GraphSpecsFrom(_, _, _, _)
\* items i..n of a snapshot of na aliases, ns structs and then enums
GraphSpecsFrom(n, i, na, ns) ==
    IF i > n THEN { << >> }
    ELSE LET kind == IF i <= na THEN "Alias"
                     ELSE IF i <= na + ns THEN "Struct" ELSE "Enum"
         IN  { << x >> \o rest : x \in GraphItemSpecs(n, i, kind),
                                 rest \in GraphSpecsFrom(n, i + 1, na, ns) }

\* every snapshot of exactly n items in which the aliases resolve (no alias
\* is defined through itself)
GraphSpecs(n) ==
    { specs \in
        UNION { GraphSpecsFrom(n, 1, p[1], p[2]) :
                  p \in {q \in (0..n) \X (0..n) : q[1] + q[2] <= n} } :
        \A i \in 1..n : AliasChainEnds(specs, i, n) }

\* reference-graph snapshots: every acyclic one of up to MaxItems items and
\* every cyclic one of up to MaxCycleItems items, over a sink that accepts
\* every write
GraphInputs ==
    { [data |-> GraphSnapshot(specs), type_mappings |-> NoMappings,
       sinkCap |-> NoLimit] :
        specs \in UNION { { sp \in GraphSpecs(n) :
                              \/ n <= MaxCycleItems
                              \/ Acyclic(Worklist(GraphSnapshot(sp))) }
                          : n \in 0..MaxItems } }

Inputs == FormatInputs \cup GraphInputs

(***************************************************************************)
(* generate_types.                                                         *)
(***************************************************************************)
RECURSIVE StructLikeFold(_, _)
\* lines 28-32: one pass over the aliases, in declaration order
StructLikeFold(aliases, set) ==
    IF aliases = << >> THEN set
    ELSE LET alias == Head(aliases)
         IN  StructLikeFold(Tail(aliases),
                 IF TypeId(alias.ty) \in set
                 THEN set \cup {alias.id.original} ELSE set)

\* lines 24-32
StructLike(d) ==
    StructLikeFold(d.aliases,
                   {d.structs[i].id.original : i \in DOMAIN d.structs})

Init ==
    /\ \E in \in Inputs :
          /\ data = in.data
          /\ type_mappings = in.type_mappings
          /\ sinkCap = in.sinkCap
    /\ out = << >>
    /\ pc = "classify"
    /\ types_mapping_to_struct = {}
    /\ sorted = << >>
    /\ next_item = 1
    /\ result = "running"
    /\ error_ref = ""
    /\ begin_calls = 0
    /\ end_calls = 0
    /\ emitted = << >>
    /\ failed_at = NoLimit

\* lines 24-32
Classify ==
    /\ pc = "classify"
    /\ types_mapping_to_struct' = StructLike(data)
    /\ pc' = "begin"
    /\ UNCHANGED <<data, type_mappings, sinkCap, out, sorted, next_item,
                   result, error_ref, begin_calls, end_calls, emitted,
                   failed_at>>

\* a callback's steps run against the sink; an error returns from
\* generate_types (`?`), success continues at `then`
Call(steps, then) ==
    LET r == RunSteps(steps, out, sinkCap)
    IN  /\ out' = r.out
        /\ sinkCap' = r.cap
        /\ IF r.res = "ok"
           THEN /\ pc' = then
                /\ UNCHANGED <<result, error_ref, failed_at>>
           ELSE /\ pc' = "done"
                /\ result' = r.res
                /\ error_ref' = r.ref
                /\ failed_at' = Len(out)

\* line 34
BeginFile ==
    /\ pc = "begin"
    /\ begin_calls' = begin_calls + 1
    /\ Call(BeginFileSteps, "sort")
    /\ UNCHANGED <<data, type_mappings, types_mapping_to_struct, sorted,
                   next_item, end_calls, emitted>>

\* the loop of line 52 walking the worklist as assembled
SortedItems_Unsorted(items, t) == items

\* the vector the loop of line 52 walks: what topsort returned
SortedItems(items, t) == t.order

\* lines 36-50
Sort ==
    /\ pc = "sort"
    /\ LET items == Worklist(data)
       IN  \E t \in Topsort(items) :
              IF t.abort
              THEN /\ pc' = "done"
                   /\ result' = "panic"
                   /\ UNCHANGED sorted
              ELSE /\ pc' = "emit"
                   /\ sorted' = SortedItems(items, t)
                   /\ UNCHANGED result
    /\ UNCHANGED <<data, type_mappings, sinkCap, out, types_mapping_to_struct,
                   next_item, error_ref, begin_calls, end_calls, emitted,
                   failed_at>>

\* the loop of line 52 stands at an item of this kind
AtItem(kind) ==
    /\ pc = "emit"
    /\ next_item <= Len(sorted)
    /\ sorted[next_item].kind = kind

Dispatched ==
    /\ emitted' = Append(emitted, ItemName(sorted[next_item]))
    /\ next_item' = next_item + 1
    /\ UNCHANGED <<data, type_mappings, types_mapping_to_struct, sorted,
                   begin_calls, end_calls>>

\* line 54 and write_enum (lines 141-148): panic!
WriteEnum ==
    /\ AtItem("Enum")
    /\ pc' = "done"
    /\ result' = "panic"
    /\ failed_at' = Len(out)
    /\ Dispatched
    /\ UNCHANGED <<sinkCap, out, error_ref>>

\* line 55 and write_struct
WriteStruct ==
    /\ AtItem("Struct")
    /\ Call(WriteStructSteps(sorted[next_item].def), "emit")
    /\ Dispatched

\* line 56 and write_type_alias
WriteTypeAlias ==
    /\ AtItem("Alias")
    /\ Call(WriteTypeAliasSteps(sorted[next_item].def), "emit")
    /\ Dispatched

\* lines 60-62
EndFile ==
    /\ pc = "emit"
    /\ next_item > Len(sorted)
    /\ end_calls' = end_calls + 1
    /\ LET r == RunSteps(EndFileSteps, out, sinkCap)
       IN  /\ out' = r.out
           /\ sinkCap' = r.cap
           /\ pc' = "done"
           /\ result' = r.res
           /\ error_ref' = r.ref
           /\ failed_at' = IF r.res = "ok" THEN failed_at ELSE Len(out)
    /\ UNCHANGED <<data, type_mappings, types_mapping_to_struct, sorted,
                   next_item, begin_calls, emitted>>

Next ==
    \/ Classify
    \/ BeginFile
    \/ Sort
    \/ WriteEnum
    \/ WriteStruct
    \/ WriteTypeAlias
    \/ EndFile

Spec == Init /\ [][Next]_vars

(***************************************************************************)
(* Reading the sink.                                                       *)
(***************************************************************************)
Failed == result \notin {"running", "ok"}

ItemNamed(name) ==
    LET items == Worklist(data)
    IN  items[CHOOSE i \in DOMAIN items : ItemName(items[i]) = name]

\* the writes that declare a struct under the name n
ClassLinesNamed(n) == {i \in DOMAIN out : out[i] = "class " \o n \o ":\n"}

\* the writes that declare an alias under the name n
AliasLinesNamed(n) == {i \in DOMAIN out : StartsWith(out[i], n \o " = ")}

\* the writes that declare an item, under the name its callback gives it
DeclLines(it) ==
    CASE it.kind = "Struct" -> ClassLinesNamed(StructDeclName(it.def))
      [] it.kind = "Alias" -> AliasLinesNamed(AliasDeclName(it.def))
      [] it.kind = "Enum" -> {}

\* the body of the struct declared at write h: the writes after it up to
\* the blank line that closes it (or the end of the output)
StructBody(h) ==
    LET blanks == {j \in DOMAIN out : j > h /\ out[j] = "\n"}
        end == IF blanks = {} THEN Len(out) + 1
               ELSE CHOOSE j \in blanks : \A k \in blanks : j <= k
    IN  SubSeq(out, h + 1, end - 1)

IsCommentLine(l) == StartsWith(l, "\t# ")

IsAnnotationLine(l) == StartsWith(l, "\t@")

\* positions, in order, of the field lines of a struct body
FieldLinePositions(body) ==
    SetToSeq({i \in DOMAIN body :
                 ~IsCommentLine(body[i]) /\ ~IsAnnotationLine(body[i])})

RECURSIVE OptionDepth(_)
\* the Optional levels of a type
OptionDepth(ty) ==
    IF ty.k = "Simple" THEN 0
    ELSE LET inner == [i \in DOMAIN ty.args |-> OptionDepth(ty.args[i])]
             sum[i \in 0..Len(inner)] ==
                 IF i = 0 THEN 0 ELSE sum[i - 1] + inner[i]
         IN  (IF ty.id = "Option" THEN 1 ELSE 0) + sum[Len(inner)]

\* a property of every field line the sink holds: P(rs, field, body, i),
\* with body[i] the line of that field of struct rs
ForAllFieldLines(P(_, _, _, _)) ==
    \A s \in DOMAIN data.structs :
        LET rs == data.structs[s]
        IN  \A h \in DeclLines(Item("Struct", rs)) :
                LET body == StructBody(h)
                    pos == FieldLinePositions(body)
                IN  /\ Len(pos) <= Len(rs.fields)
                    /\ \A k \in DOMAIN pos : P(rs, rs.fields[k], body, pos[k])

\* some field line the sink holds has the property
SomeFieldLine(P(_, _, _, _)) ==
    \E s \in DOMAIN data.structs :
        LET rs == data.structs[s]
        IN  \E h \in DeclLines(Item("Struct", rs)) :
                LET body == StructBody(h)
                    pos == FieldLinePositions(body)
                IN  \E k \in DOMAIN pos :
                        k <= Len(rs.fields) /\ P(rs, rs.fields[k], body, pos[k])

(***************************************************************************)
(* C1.  An enum in the snapshot makes write_enum return a typed            *)
(* UnsupportedConstructError naming the enum to the caller of              *)
(* generate_types; the run does not end in a panic.                        *)
(***************************************************************************)
EnumDispatched ==
    /\ emitted # << >>
    /\ ItemNamed(emitted[Len(emitted)]).kind = "Enum"

\* C1: once an enum has been dispatched, the run has ended with the typed
\* error UnsupportedConstructError naming that enum (and not with a panic)
C1_EnumYieldsTypedError ==
    EnumDispatched =>
        /\ result = "UnsupportedConstructError"
        /\ error_ref = emitted[Len(emitted)]

(***************************************************************************)
(* C2.  A field of type Optional<T> is emitted with the absence marker     *)
(* once per Optional level: the formatter and write_field never wrap it    *)
(* twice.                                                                  *)
(***************************************************************************)
MarkedOncePerLevel(rs, field, body, i) ==
    (IsOptional(field.ty) /\ field.type_override = << >>)
        => CountSub(body[i], "|None") = OptionDepth(field.ty)

\* C2: every field line of an Optional field without override holds "|None"
\* once per Optional level of the field's type
C2_OptionalMarkedOnce == ForAllFieldLines(MarkedOncePerLevel)

(***************************************************************************)
(* C3.  The type text of a field with a type override is exactly the       *)
(* override string, whatever the field's type.                             *)
(***************************************************************************)
OverrideTextExact(rs, field, body, i) ==
    field.type_override # << >>
        => body[i] = "\t" \o field.id.original \o ": "
                        \o field.type_override[1] \o "\n"

\* C3: every field line of a field with an override is tab, original name,
\* ": ", the override string, and nothing more
C3_OverrideIsExactText == ForAllFieldLines(OverrideTextExact)

(***************************************************************************)
(* C4.  When emitting an item fails, the sink holds nothing of the         *)
(* failing item.                                                           *)
(***************************************************************************)
\* C4: after a callback has failed, the sink holds what it held when that
\* callback was entered
C4_NoPartialOutputOfFailingItem ==
    (Failed /\ failed_at # NoLimit) => Len(out) = failed_at

(***************************************************************************)
(* C5.  Two distinct structs that refer to each other directly make        *)
(* generate_types return an UnresolvableCycleError, and no item is         *)
(* emitted.                                                                *)
(***************************************************************************)
DirectRefs(rs) ==
    {rs.fields[i].ty.id : i \in {j \in DOMAIN rs.fields : rs.fields[j].ty.k = "Simple"}}

DirectStructCycle ==
    \E a, b \in DOMAIN data.structs :
        /\ a # b
        /\ data.structs[b].id.original \in DirectRefs(data.structs[a])
        /\ data.structs[a].id.original \in DirectRefs(data.structs[b])

\* C5: with two structs referring to each other directly, the run past the
\* sorter has returned UnresolvableCycleError and dispatched no item
C5_CycleYieldsCycleError ==
    (DirectStructCycle /\ pc \in {"emit", "done"})
        => (result = "UnresolvableCycleError" /\ emitted = << >>)

(***************************************************************************)
(* C6.  In an acyclic snapshot, whenever the output holds the declaration  *)
(* of an item X that refers to another item Y by name, it holds the        *)
(* declaration of Y before it.                                             *)
(***************************************************************************)
DeclaredBefore(y, x) ==
    \A i \in DeclLines(x) : \E j \in DeclLines(y) : j < i

\* C6: in an acyclic snapshot every declaration in the sink comes after the
\* declarations of the items it refers to
C6_DependenciesDeclaredFirst ==
    LET items == Worklist(data)
    IN  Acyclic(items) =>
            \A i \in DOMAIN items :
                \A n \in Deps(items[i], items) :
                    DeclaredBefore(ItemNamed(n), items[i])

\* a finished run that declared an item after one the worklist lists later
C6_Witness ==
    LET items == Worklist(data)
    IN  /\ result = "ok"
        /\ Acyclic(items)
        /\ \E i, j \in DOMAIN items :
              /\ i < j
              /\ ItemName(items[j]) \in Deps(items[i], items)
              /\ DeclLines(items[i]) # {}
              /\ DeclaredBefore(items[j], items[i])

(***************************************************************************)
(* C7.  The struct-like set is the closure of the struct names under       *)
(* alias chains, whatever the declaration order of the aliases.            *)
(***************************************************************************)
RECURSIVE ReachesStruct(_, _)
\* the name is a struct, or an alias of a name that reaches a struct
ReachesStruct(name, fuel) ==
    \/ \E i \in DOMAIN data.structs : data.structs[i].id.original = name
    \/ /\ fuel > 0
       /\ \E i \in DOMAIN data.aliases :
             /\ data.aliases[i].id.original = name
             /\ data.aliases[i].ty.k = "Simple"
             /\ ReachesStruct(data.aliases[i].ty.id, fuel - 1)

AliasClosure ==
    {d.original : d \in {e \in AllIds : ReachesStruct(e.original, Len(data.aliases))}}

\* C7: once computed, the struct-like set is exactly the set of names that
\* reach a struct through a chain of aliases
C7_StructLikeIsAliasClosure ==
    pc # "classify" => types_mapping_to_struct = AliasClosure

(***************************************************************************)
(* C8.  A field line carries the field's original name, and the write      *)
(* before it is the rename annotation naming the renamed name exactly      *)
(* when the renamed name differs from the original; an annotation is       *)
(* followed by its field line.                                             *)
(***************************************************************************)
ExpectedAnnotation(field) ==
    "\t@JsonProperty(\"" \o EscapeDebug(field.id.renamed) \o "\")\n"

AnnotatedIffRenamed(rs, field, body, i) ==
    /\ StartsWith(body[i], "\t" \o field.id.original \o ": ")
    /\ (field.id.renamed # field.id.original)
          <=> (i > 1 /\ IsAnnotationLine(body[i - 1]))
    /\ (field.id.renamed # field.id.original)
          => body[i - 1] = ExpectedAnnotation(field)

AnnotationsPrecedeFieldLines ==
    \A i \in DOMAIN out :
        (IsAnnotationLine(out[i]) /\ i < Len(out))
            => /\ ~IsAnnotationLine(out[i + 1])
               /\ ~IsCommentLine(out[i + 1])
               /\ StartsWith(out[i + 1], "\t")

\* C8: a field line carries the original name and is preceded by the
\* annotation of the renamed name if and only if the two names differ
C8_RenameAnnotation ==
    /\ ForAllFieldLines(AnnotatedIffRenamed)
    /\ AnnotationsPrecedeFieldLines

RenamedEscaped(rs, field, body, i) ==
    EscapeDebug(field.id.renamed) # field.id.renamed

NotRenamed(rs, field, body, i) == field.id.renamed = field.id.original

\* a finished run that wrote renamed fields (one of them with a name the
\* annotation escapes) and a field that is not renamed
C8_Witness ==
    /\ result = "ok"
    /\ SomeFieldLine(RenamedEscaped)
    /\ SomeFieldLine(NotRenamed)

(***************************************************************************)
(* C9.  begin_file is called once, before any item; a successful run       *)
(* emits every item of the snapshot once, the fields of a struct in        *)
(* declared order, and calls end_file once after the last item; a failed   *)
(* run never calls end_file.                                               *)
(***************************************************************************)
Count(seq, x) == Cardinality({i \in DOMAIN seq : seq[i] = x})

FieldsInDeclaredOrder ==
    \A s \in DOMAIN data.structs :
        LET rs == data.structs[s]
        IN  \A h \in DeclLines(Item("Struct", rs)) :
                LET body == StructBody(h)
                    pos == FieldLinePositions(body)
                IN  /\ Len(pos) = Len(rs.fields)
                    /\ \A k \in DOMAIN pos :
                          StartsWith(body[pos[k]],
                                     "\t" \o rs.fields[k].id.original \o ": ")

\* C9: begin_file once and first; on success every item once, fields in
\* declared order, end_file once and last; on failure no end_file
C9_FramingAndItemsOnce ==
    LET items == Worklist(data)
    IN  /\ begin_calls <= 1
        /\ end_calls <= 1
        /\ (emitted # << >> \/ end_calls = 1)
              => (begin_calls = 1 /\ out # << >> /\ out[1] = "\n")
        /\ end_calls = 1 => (pc = "done" /\ result = "ok")
        /\ Failed => end_calls = 0
        /\ result = "ok" =>
              /\ end_calls = 1
              /\ Len(emitted) = Len(data.structs) + Len(data.aliases)
                                   + Len(data.enums)
              /\ \A i \in DOMAIN items :
                    /\ Count(emitted, ItemName(items[i])) = 1
                    /\ Cardinality(DeclLines(items[i])) = 1
              /\ FieldsInDeclaredOrder

\* a successful run over a struct of several fields and an alias
C9_Witness ==
    /\ result = "ok"
    /\ data.aliases # << >>
    /\ \E s \in DOMAIN data.structs : Len(data.structs[s].fields) >= 2

(***************************************************************************)
(* C10.  Every struct or alias the run has emitted is declared under the   *)
(* name the formatter renders for a reference to it (no type_mappings      *)
(* entry being registered for it).                                         *)
(***************************************************************************)
ReferenceName(it) == FormatType(Simple(ItemName(it)), << >>).text

DeclaredUnder(it, n) ==
    CASE it.kind = "Struct" -> ClassLinesNamed(n) # {}
      [] it.kind = "Alias" -> AliasLinesNamed(n) # {}
      [] it.kind = "Enum" -> TRUE

\* C10: every emitted struct or alias without a type_mappings entry is
\* declared under the name the formatter renders for a reference to it
C10_DeclNameIsReferenceName ==
    \A k \in DOMAIN emitted :
        LET it == ItemNamed(emitted[k])
        IN  (/\ k < Len(emitted) \/ ~Failed
             /\ ItemName(it) \notin DOMAIN type_mappings)
                => DeclaredUnder(it, ReferenceName(it))

====
